---- MODULE Spec2Model ----
(***************************************************************************)
(* State-machine model of the VisX exposure controller                     *)
(* (src/visx/xapp.py, class VisX) together with the part of the camera     *)
(* wrapper it drives (src/visx/qhyccd.py, class QHYCCDCamera).             *)
(*                                                                         *)
(* The detector temperature the hardware reports is arbitrary but steady   *)
(* over the window modelled.                                               *)
(*                                                                         *)
(* The properties of other devices (telescope, observers, filter wheels)   *)
(* reach the INDI client one by one; client.get gives None for one that    *)
(* has not been received.                                                  *)
(*                                                                         *)
(* Time is an integer clock.  One clock unit stands for 50 seconds, so the *)
(* camera's start-up exposure time of 100.0 s is 2 units.  Every call of   *)
(* time.time() made inside one call of loop() reads the same clock value.  *)
(*                                                                         *)
(* Python's None is the empty tuple <<>>, a present value x is <<x>>.      *)
(*                                                                         *)
(* A call into a collaborator (the camera SDK through ctypes, the FITS     *)
(* writer) either returns or raises; which one is an input of the tick     *)
(* (Outcomes).  The INDI handlers and loop() are run one at a time.        *)
(***************************************************************************)
EXTENDS Integers, Sequences, FiniteSets, TLC

VARIABLES self, camera, hardware, client, properties, bus, clock, in_flight, last

vars == <<self, camera, hardware, client, properties, bus, clock, in_flight, last>>

-----------------------------------------------------------------------------
(* Bounds of the model *)

MaxTime == 3

MaxExp == 2

MaxTemp == 1

MaxKnown == 1

(* Program constants *)

CAMERA_DEFAULT_EXPTIME == 2

CAMERA_DEFAULT_TEMP == 0

CAMERA_DEFAULT_GAIN == 1

-----------------------------------------------------------------------------
None == <<>>

Some(x) == <<x>>

Max(a, b) == IF a >= b THEN a ELSE b

Times == 0 .. MaxTime

ExpTargets == 0 .. MaxExp

Temps == 0 .. MaxTemp

(* EXTERNAL_RECORDED_PROPERTIES: the INDI properties of other devices that *)
(* are recorded, each with its FITS keyword or None.                       *)
EXTERNAL_RECORDED_PROPERTIES ==
    [p \in {"tcsi.catalog.object", "tcsi.catdata.ra", "tcsi.catdata.dec",
            "tcsi.catdata.epoch", "observers.current_observer.full_name",
            "tcsi.teldata.pa", "flipacq.position.in"} |->
        CASE p = "tcsi.catalog.object" -> Some("OBJECT")
          [] p = "observers.current_observer.full_name" -> Some("OBSERVER")
          [] p = "tcsi.teldata.pa" -> Some("PARANG")
          [] OTHER -> None]

RECORDED_WHEELS == {"fwfpm", "fwlyot"}

(* indi_prop.upper().replace('.', ' ') and f"{fwname.upper()} PRESET NAME" *)
(* on the names above, and f"{fwname}.filterName".                         *)
UpperSpaced(p) ==
    CASE p = "tcsi.catdata.ra" -> "TCSI CATDATA RA"
      [] p = "tcsi.catdata.dec" -> "TCSI CATDATA DEC"
      [] p = "tcsi.catdata.epoch" -> "TCSI CATDATA EPOCH"
      [] p = "flipacq.position.in" -> "FLIPACQ POSITION IN"
      [] p = "tcsi.catalog.object" -> "TCSI CATALOG OBJECT"
      [] p = "observers.current_observer.full_name"
            -> "OBSERVERS CURRENT_OBSERVER FULL_NAME"
      [] p = "tcsi.teldata.pa" -> "TCSI TELDATA PA"

PresetName(fwname) ==
    CASE fwname = "fwfpm" -> "FWFPM PRESET NAME"
      [] fwname = "fwlyot" -> "FWLYOT PRESET NAME"

FilterName(fwname) ==
    CASE fwname = "fwfpm" -> "fwfpm.filterName"
      [] fwname = "fwlyot" -> "fwlyot.filterName"

(* What the INDI client holds of the other devices: for a recorded         *)
(* property its value, for a filter wheel the switches of filterName, and  *)
(* None for what has not been received.                                    *)
FilterNames == {"open"}

ElementValues == {Some(1)}

WheelValues == {Some(sw) : sw \in [FilterNames -> {"On", "Off"}]}

ClientNames == DOMAIN EXTERNAL_RECORDED_PROPERTIES \cup {FilterName(fw) : fw \in RECORDED_WHEELS}

ClientValues(name) ==
    IF name \in DOMAIN EXTERNAL_RECORDED_PROPERTIES THEN ElementValues ELSE WheelValues

InitClient == [name \in ClientNames |-> None]

(* What the collaborators do during one tick: whether the camera's         *)
(* temperature read inside _gather_metadata returns, whether               *)
(* start_exposure / readout return, whether the FITS write succeeds,       *)
(* whether the temperature read of update_from_camera returns.             *)
Outcomes ==
    [gather_raises : BOOLEAN, start_raises : BOOLEAN, readout_raises : BOOLEAN,
     write_fails : BOOLEAN, temp_raises : BOOLEAN]

-----------------------------------------------------------------------------
(* State after construction and setup() *)

InitSelf ==
    [exposure_start_ts     |-> 0,
     should_cancel         |-> FALSE,
     currently_exposing    |-> FALSE,
     should_begin_exposure |-> FALSE,
     last_image_filename   |-> None,
     exposure_start_telem  |-> None,
     exposure_time_sec     |-> CAMERA_DEFAULT_EXPTIME,
     temp_target_deg_c     |-> CAMERA_DEFAULT_TEMP,
     temp_current_deg_c    |-> None]

InitCamera ==
    [exposure_time      |-> CAMERA_DEFAULT_EXPTIME,
     target_temperature |-> CAMERA_DEFAULT_TEMP,
     gain               |-> CAMERA_DEFAULT_GAIN]

(* _init_properties runs before _init_camera, so the number elements are   *)
(* defined with the value None.                                            *)
InitProperties ==
    [fsm              |-> [state |-> "OPERATING"],
     last_frame       |-> [filename |-> None],
     expose           |-> [request |-> "Off", cancel |-> "Off"],
     exptime          |-> [current |-> None, target |-> None],
     temp_ccd         |-> [current |-> None, target |-> None],
     current_exposure |-> [remaining_sec |-> 0, remaining_pct |-> 0]]

(* The record kept about the last operation performed: for handle_expose   *)
(* and handle_temp_ccd the value written (arg), for a tick what loop()     *)
(* did.                                                                    *)
PreOf(s) ==
    [currently_exposing    |-> s.currently_exposing,
     should_cancel         |-> s.should_cancel,
     should_begin_exposure |-> s.should_begin_exposure,
     exposure_start_ts     |-> s.exposure_start_ts,
     exposure_time_sec     |-> s.exposure_time_sec,
     last_image_filename   |-> s.last_image_filename]

NoLast ==
    [op          |-> "init",
     arg         |-> None,
     pre         |-> PreOf(InitSelf),
     now         |-> 0,
     branch      |-> "none",
     calls       |-> <<>>,
     fin_invoked |-> FALSE,
     fin_arg     |-> None,
     header      |-> None,
     writes      |-> 0,
     write_ok    |-> FALSE,
     start_failed |-> FALSE,
     temp_read_raised |-> FALSE,
     escaped     |-> FALSE,
     refreshed   |-> FALSE,
     regulated   |-> FALSE,
     status_raised |-> FALSE,
     steps       |-> <<>>]

Init ==
    /\ self = InitSelf
    /\ camera = InitCamera
    /\ \E t \in Temps : hardware = [temperature |-> t]
    /\ client = InitClient
    /\ properties = InitProperties
    /\ bus = InitProperties
    /\ clock = 0
    /\ in_flight = 0
    /\ last = NoLast

-----------------------------------------------------------------------------
(* INDI handlers *)

HandleExptimeSelfWhileExposing(s, prop, target) ==
    IF target # None /\ target # prop.current
    THEN [s EXCEPT !.exposure_time_sec = target[1]]
    ELSE s

HandleExptimeSelf(s, prop, target) ==
    IF ~s.currently_exposing /\ target # None /\ target # prop.current
    THEN [s EXCEPT !.exposure_time_sec = target[1]]
    ELSE s

HandleExptimeProp(s, prop, target) ==
    IF ~s.currently_exposing /\ target # None /\ target # prop.current
    THEN [current |-> target, target |-> target]
    ELSE prop

HandleExptime(target) ==
    /\ self' = HandleExptimeSelf(self, properties.exptime, target)
    /\ properties' = [properties EXCEPT
                        !.exptime = HandleExptimeProp(self, properties.exptime, target)]
    /\ bus' = [bus EXCEPT !.exptime = properties'.exptime]
    /\ last' = [NoLast EXCEPT !.op = "handle_exptime"]
    /\ UNCHANGED <<camera, hardware, client, clock, in_flight>>

HandleExposeSelf(s, request, cancel) ==
    [s EXCEPT !.should_begin_exposure = IF request = "On" THEN TRUE ELSE @,
              !.should_cancel = IF cancel = "On" THEN TRUE ELSE @]

(* The expose property after the handler: existing_property is sent back  *)
(* as it is, nothing of the message is stored in it.                       *)
HandleExposePropAsWritten(prop, request, cancel) ==
    [request |-> request, cancel |-> cancel]

HandleExposeProp(prop, request, cancel) == prop

HandleExpose(request, cancel) ==
    /\ self' = HandleExposeSelf(self, request, cancel)
    /\ properties' = [properties EXCEPT
                        !.expose = HandleExposeProp(properties.expose, request, cancel)]
    /\ bus' = [bus EXCEPT !.expose = properties'.expose]
    /\ last' = [NoLast EXCEPT !.op = "handle_expose", !.arg = <<request, cancel>>]
    /\ UNCHANGED <<camera, hardware, client, clock, in_flight>>

HandleTempCcdSelf(s, prop, target) ==
    IF target # None /\ target # prop.current
    THEN [s EXCEPT !.temp_target_deg_c = target[1]]
    ELSE s

HandleTempCcdProp(prop, target) ==
    IF target # None /\ target # prop.current
    THEN [current |-> target, target |-> target]
    ELSE prop

HandleTempCcd(target) ==
    /\ self' = HandleTempCcdSelf(self, properties.temp_ccd, target)
    /\ properties' = [properties EXCEPT
                        !.temp_ccd = HandleTempCcdProp(properties.temp_ccd, target)]
    /\ bus' = [bus EXCEPT !.temp_ccd = properties'.temp_ccd]
    /\ last' = [NoLast EXCEPT !.op = "handle_temp_ccd", !.arg = target]
    /\ UNCHANGED <<camera, hardware, client, clock, in_flight>>

-----------------------------------------------------------------------------
(* find_active_filter: None when filterName was not received, else the    *)
(* first element that is ON, None when there is none.                      *)
FindActiveFilter(cl, fwname) ==
    IF cl[FilterName(fwname)] = None THEN None
    ELSE LET fwelems == cl[FilterName(fwname)][1]
             on == {elem \in DOMAIN fwelems : fwelems[elem] = "On"}
         IN  IF on = {} THEN None ELSE Some(CHOOSE elem \in on : TRUE)

NewKw(indi_prop) ==
    IF EXTERNAL_RECORDED_PROPERTIES[indi_prop] = None
    THEN UpperSpaced(indi_prop)
    ELSE EXTERNAL_RECORDED_PROPERTIES[indi_prop][1]

(* _gather_metadata: the camera readings, then one keyword per recorded    *)
(* property with what client.get returned (None when it is missing), then  *)
(* one keyword per filter wheel.                                           *)
GatherMetadata(cam, hw, cl) ==
    LET meta == [CCDTEMP |-> hw.temperature,
                 CCDSETP |-> cam.target_temperature,
                 GAIN    |-> cam.gain,
                 EXPTIME |-> cam.exposure_time]
        recorded == [new_kw \in {NewKw(p) : p \in DOMAIN EXTERNAL_RECORDED_PROPERTIES} |->
                        cl[CHOOSE p \in DOMAIN EXTERNAL_RECORDED_PROPERTIES : NewKw(p) = new_kw]]
        wheels == [kw \in {PresetName(fw) : fw \in RECORDED_WHEELS} |->
                      FindActiveFilter(cl, CHOOSE fw \in RECORDED_WHEELS : PresetName(fw) = kw)]
    IN  wheels @@ recorded @@ meta

(* Whether _gather_metadata raises: the camera's temperature read may;     *)
(* client.get returns None for a property that was not received.           *)
GatherRaisesWhenMissing(cl, out) ==
    out.gather_raises \/ \E name \in ClientNames : cl[name] = None

GatherRaises(cl, out) == out.gather_raises

(* The if / elif / elif of loop(): which transition the tick takes. *)
LoopBranchBeginUnguarded(s, now) ==
    IF s.should_cancel THEN "cancel"
    ELSE IF s.should_begin_exposure THEN "begin"
    ELSE IF s.currently_exposing
            /\ now > s.exposure_time_sec + s.exposure_start_ts THEN "complete"
    ELSE "none"

LoopBranchCompletionFirst(s, now) ==
    IF s.currently_exposing
       /\ now > s.exposure_time_sec + s.exposure_start_ts THEN "complete"
    ELSE IF s.should_cancel THEN "cancel"
    ELSE IF ~s.currently_exposing /\ s.should_begin_exposure THEN "begin"
    ELSE "none"

LoopBranch(s, now) ==
    IF s.should_cancel THEN "cancel"
    ELSE IF ~s.currently_exposing /\ s.should_begin_exposure THEN "begin"
    ELSE IF s.currently_exposing
            /\ now > s.exposure_time_sec + s.exposure_start_ts THEN "complete"
    ELSE "none"

(* begin_exposure: the three assignments, then the start snapshot, then    *)
(* the camera command.  A raise leaves what was assigned before it.        *)
BeginExposure(s, cam, hw, cl, now, out) ==
    LET s1 == [s EXCEPT !.currently_exposing = TRUE,
                        !.should_begin_exposure = FALSE,
                        !.exposure_start_ts = now]
        s2 == [s1 EXCEPT !.exposure_start_telem = Some(GatherMetadata(cam, hw, cl))]
    IN  IF GatherRaises(cl, out)
        THEN [self |-> s1, calls |-> <<>>, raised |-> TRUE,
              fin_invoked |-> FALSE, fin_arg |-> None, header |-> None, writes |-> 0]
        ELSE [self |-> s2, calls |-> <<"start_exposure">>, raised |-> out.start_raises,
              fin_invoked |-> FALSE, fin_arg |-> None, header |-> None, writes |-> 0]

(* The FITS header finalize_exposure assembles.  CANCELD is written only   *)
(* when actual_exptime_sec is given; an absent card is FALSE here.         *)
FitsHeader(s, cam, actual_exptime_sec) ==
    LET exposure_time == IF actual_exptime_sec = None THEN cam.exposure_time
                         ELSE actual_exptime_sec[1]
    IN  [DATE_OBS |-> s.exposure_start_ts,
         DATE_END |-> s.exposure_start_ts + exposure_time,
         CANCELD  |-> actual_exptime_sec # None]

(* finalize_exposure: readout, end snapshot, header, file name, write      *)
(* (a failed write is caught), currently_exposing = False.  Iterating a    *)
(* start snapshot that is None raises.                                     *)
FinalizeExposure(s, cam, cl, now, actual_exptime_sec, out) ==
    LET failed(calls) ==
            [self |-> s, calls |-> calls, raised |-> TRUE, fin_invoked |-> TRUE,
             fin_arg |-> actual_exptime_sec, header |-> None, writes |-> 0]
    IN  IF out.readout_raises THEN failed(<<"readout">>)
        ELSE IF GatherRaises(cl, out) THEN failed(<<"readout">>)
        ELSE IF s.exposure_start_telem = None THEN failed(<<"readout">>)
        ELSE [self |-> [s EXCEPT !.last_image_filename = Some(now),
                                 !.currently_exposing = FALSE],
              calls |-> <<"readout">>, raised |-> FALSE, fin_invoked |-> TRUE,
              fin_arg |-> actual_exptime_sec,
              header |-> Some(FitsHeader(s, cam, actual_exptime_sec)),
              writes |-> 1]

(* actual_exptime_sec of cancel_exposure *)
CancelActualExptimePlanned(s, now) == s.exposure_time_sec

CancelActualExptime(s, now) == now - s.exposure_start_ts

(* cancel_exposure: the camera is not asked to cancel (a TODO in the       *)
(* source); the exposure is finalized with the elapsed time.               *)
CancelExposure(s, cam, cl, now, out) ==
    LET s1 == [s EXCEPT !.currently_exposing = FALSE, !.should_cancel = FALSE]
    IN  FinalizeExposure(s1, cam, cl, now, Some(CancelActualExptime(s, now)), out)

(* The branch of loop() taken, with what it did. *)
ControllerStepFlagLeftToFinalize(br, s, cam, hw, cl, now, out) ==
    IF br = "cancel" THEN CancelExposure(s, cam, cl, now, out)
    ELSE IF br = "begin" THEN BeginExposure(s, cam, hw, cl, now, out)
    ELSE IF br = "complete" THEN FinalizeExposure(s, cam, cl, now, None, out)
    ELSE [self |-> s, calls |-> <<>>, raised |-> FALSE, fin_invoked |-> FALSE,
          fin_arg |-> None, header |-> None, writes |-> 0]

ControllerStep(br, s, cam, hw, cl, now, out) ==
    IF br = "cancel" THEN CancelExposure(s, cam, cl, now, out)
    ELSE IF br = "begin" THEN BeginExposure(s, cam, hw, cl, now, out)
    ELSE IF br = "complete"
         THEN FinalizeExposure([s EXCEPT !.currently_exposing = FALSE],
                               cam, cl, now, None, out)
    ELSE [self |-> s, calls |-> <<>>, raised |-> FALSE, fin_invoked |-> FALSE,
          fin_arg |-> None, header |-> None, writes |-> 0]

-----------------------------------------------------------------------------
(* refresh_properties: the remaining-time status (published when           *)
(* remaining_sec changed), update_from_camera, then the temp_ccd and       *)
(* exptime properties are set from the attributes and published.           *)
(* 100 * remaining_sec / exposure_time_sec raises when the exposure time   *)
(* is 0; the camera's temperature read may raise after temp_target_deg_c   *)
(* was taken from the camera.                                              *)
RefreshProperties(s, cam, hw, props, b, now, out) ==
    LET remaining_sec == IF s.currently_exposing
                         THEN Max((s.exposure_start_ts + s.exposure_time_sec) - now, 0)
                         ELSE 0
        remaining_pct == IF s.currently_exposing
                         THEN (100 * remaining_sec) \div s.exposure_time_sec
                         ELSE 0
        changed == remaining_sec # props.current_exposure.remaining_sec
        cur == IF changed
               THEN [remaining_sec |-> remaining_sec, remaining_pct |-> remaining_pct]
               ELSE props.current_exposure
        p1 == [props EXCEPT !.current_exposure = cur]
        b1 == IF changed THEN [b EXCEPT !.current_exposure = cur] ELSE b
        s1 == [s EXCEPT !.temp_target_deg_c = cam.target_temperature]
        s2 == [s1 EXCEPT !.temp_current_deg_c = Some(hw.temperature),
                         !.exposure_time_sec = cam.exposure_time]
        tc == [current |-> s2.temp_current_deg_c, target |-> Some(s2.temp_target_deg_c)]
        et == [current |-> Some(s2.exposure_time_sec), target |-> Some(s2.exposure_time_sec)]
    IN  IF s.currently_exposing /\ s.exposure_time_sec = 0
        THEN [self |-> s, properties |-> props, bus |-> b, raised |-> TRUE,
              status_raised |-> TRUE]
        ELSE IF out.temp_raises
        THEN [self |-> s1, properties |-> p1, bus |-> b1, raised |-> TRUE,
              status_raised |-> FALSE]
        ELSE [self |-> s2,
              properties |-> [p1 EXCEPT !.temp_ccd = tc, !.exptime = et],
              bus |-> [b1 EXCEPT !.temp_ccd = tc, !.exptime = et],
              raised |-> FALSE, status_raised |-> FALSE]

(* maintain_temperature_control: the setpoint is commanded every tick. *)
MaintainTemperatureControl(s, cam) ==
    [cam EXCEPT !.target_temperature = s.temp_target_deg_c]

(* Start commands issued since finalize_exposure was last entered. *)
InFlightAfter(n, step) ==
    IF step.fin_invoked THEN 0
    ELSE IF step.calls = <<"start_exposure">> THEN (IF n < 2 THEN n + 1 ELSE n)
    ELSE n

(* The outcomes a tick consults; one that is not consulted is fixed, so    *)
(* that every tick is enumerated once.                                     *)
Consulted(br, s, cl, out) ==
    LET fin == br \in {"cancel", "complete"}
        gathers == br = "begin" \/ (fin /\ ~out.readout_raises)
        step_raised ==
            \/ br = "begin" /\ (GatherRaises(cl, out) \/ out.start_raises)
            \/ fin /\ (out.readout_raises \/ GatherRaises(cl, out) \/ s.exposure_start_telem = None)
        divides_by_zero ==
            /\ s.exposure_time_sec = 0
            /\ IF br = "begin" THEN TRUE ELSE s.currently_exposing /\ ~fin
        reads_temp == ~step_raised /\ ~divides_by_zero
    IN  /\ (~fin => ~out.readout_raises)
        /\ (~gathers => ~out.gather_raises)
        /\ (~(br = "begin" /\ ~GatherRaises(cl, out)) => ~out.start_raises)
        /\ (~(fin /\ ~step_raised) => ~out.write_fails)
        /\ (~reads_temp => ~out.temp_raises)

(* The steps of loop() in the order they ran: the if / elif transition,   *)
(* refresh_properties (which publishes), maintain_temperature_control.     *)
StepsRun(step_raised, refresh_raised) ==
    IF step_raised THEN <<"transition">>
    ELSE IF refresh_raised THEN <<"transition", "refresh_properties">>
    ELSE <<"transition", "refresh_properties", "maintain_temperature_control">>

(* One call of loop().  An exception raised by the transition skips the    *)
(* refresh and the temperature regulation, one raised by the refresh skips *)
(* the regulation, and either leaves loop(); the caller, which is not part *)
(* of this repository, then keeps calling loop() or lets the process end   *)
(* (a behaviour that stops there).                                         *)
Loop ==
    \E br \in {LoopBranch(self, clock)} :
       \E out \in Outcomes :
         /\ Consulted(br, self, client, out)
         /\ \E step \in {ControllerStep(br, self, camera, hardware, client, clock, out)} :
            \E rf \in {RefreshProperties(step.self, camera, hardware, properties, bus, clock, out)} :
            \E escaped \in {step.raised \/ rf.raised} :
              /\ self' = IF step.raised THEN step.self ELSE rf.self
              /\ properties' = IF step.raised THEN properties ELSE rf.properties
              /\ bus' = IF step.raised THEN bus ELSE rf.bus
              /\ camera' = IF escaped THEN camera
                           ELSE MaintainTemperatureControl(rf.self, camera)
              /\ in_flight' = InFlightAfter(in_flight, step)
              /\ last' = [op           |-> "loop",
                          arg          |-> None,
                          pre          |-> PreOf(self),
                          now          |-> clock,
                          branch       |-> br,
                          calls        |-> step.calls,
                          fin_invoked  |-> step.fin_invoked,
                          fin_arg      |-> step.fin_arg,
                          header       |-> step.header,
                          writes       |-> step.writes,
                          write_ok     |-> (step.writes = 1 /\ ~out.write_fails),
                          start_failed |-> (br = "begin" /\ step.raised),
                          temp_read_raised |-> (br = "begin" /\ out.gather_raises),
                          escaped      |-> escaped,
                          refreshed    |-> (~step.raised /\ ~rf.raised),
                          regulated    |-> ~escaped,
                          status_raised |-> (~step.raised /\ rf.status_raised),
                          steps        |-> StepsRun(step.raised, rf.raised)]
    /\ UNCHANGED <<clock, hardware, client>>

(* Time passes between two operations. *)
Advance ==
    /\ clock < MaxTime
    /\ clock' = clock + 1
    /\ last' = [NoLast EXCEPT !.op = "advance"]
    /\ UNCHANGED <<self, camera, hardware, client, properties, bus, in_flight>>

(* The INDI client receives, for the first time, a property of another    *)
(* device.  At most MaxKnown of them arrive.                               *)
ClientReceives(name, value) ==
    /\ client[name] = None
    /\ Cardinality({n \in ClientNames : client[n] # None}) < MaxKnown
    /\ client' = [client EXCEPT ![name] = value]
    /\ last' = [NoLast EXCEPT !.op = "client"]
    /\ UNCHANGED <<self, camera, hardware, properties, bus, clock, in_flight>>

(* The whole device: ticks, time, every writable property, and what the   *)
(* other devices publish.                                                  *)
Next ==
    \/ Loop
    \/ Advance
    \/ \E name \in ClientNames :
          \E value \in ClientValues(name) : ClientReceives(name, value)
    \/ \E target \in {None} \cup {Some(t) : t \in ExpTargets} : HandleExptime(target)
    \/ \E request \in {"On", "Off"}, cancel \in {"On", "Off"} : HandleExpose(request, cancel)
    \/ \E target \in {None} \cup {Some(t) : t \in Temps} : HandleTempCcd(target)

Spec == Init /\ [][Next]_vars

(* The exposure lifecycle: as Next, with no write of the temperature       *)
(* target arriving from the bus.                                           *)
NextExposure ==
    \/ Loop
    \/ Advance
    \/ \E target \in {None} \cup {Some(t) : t \in ExpTargets} : HandleExptime(target)
    \/ \E request \in {"On", "Off"}, cancel \in {"On", "Off"} : HandleExpose(request, cancel)

SpecExposure == Init /\ [][NextExposure]_vars

(* Exposures requested and canceled at the exposure time the camera       *)
(* holds, when loop() keeps being called and time keeps passing.           *)
NextLifecycle ==
    \/ Loop
    \/ Advance
    \/ \E request \in {"On", "Off"}, cancel \in {"On", "Off"} : HandleExpose(request, cancel)

SpecLifecycleLive ==
    Init /\ [][NextLifecycle]_vars /\ WF_vars(Loop) /\ WF_vars(Advance)

(* The temperature setpoint: as Next, with no write of the exposure time   *)
(* arriving from the bus.                                                  *)
NextTemperature ==
    \/ Loop
    \/ Advance
    \/ \E request \in {"On", "Off"}, cancel \in {"On", "Off"} : HandleExpose(request, cancel)
    \/ \E target \in {None} \cup {Some(t) : t \in Temps} : HandleTempCcd(target)

SpecTemperature == Init /\ [][NextTemperature]_vars

(* The telemetry snapshots: exposures begun and canceled while the other   *)
(* devices' properties arrive, at one instant.                             *)
NextMetadata ==
    \/ Loop
    \/ \E request \in {"On", "Off"}, cancel \in {"On", "Off"} : HandleExpose(request, cancel)
    \/ \E name \in ClientNames :
          \E value \in ClientValues(name) : ClientReceives(name, value)

SpecMetadata == Init /\ [][NextMetadata]_vars

TypeOK ==
    /\ clock \in Times
    /\ in_flight \in 0 .. 2
    /\ self.currently_exposing \in BOOLEAN
    /\ self.exposure_time_sec \in ExpTargets \cup {CAMERA_DEFAULT_EXPTIME}

-----------------------------------------------------------------------------
(* Properties.  `last` describes the operation that led to the state, so a *)
(* formula about "the tick that ..." reads last.op = "loop" and compares   *)
(* last.pre (the attributes before the tick) with self (after it).         *)

Called(cmd) == \E i \in 1 .. Len(last.calls) : last.calls[i] = cmd

CalledBefore(a, b) ==
    \E i, j \in 1 .. Len(last.calls) :
        i < j /\ last.calls[i] = a /\ last.calls[j] = b

Deadline == last.pre.exposure_start_ts + last.pre.exposure_time_sec

StepBefore(a, b) ==
    \E i, j \in 1 .. Len(last.steps) :
        i < j /\ last.steps[i] = a /\ last.steps[j] = b

(* C1: at most one exposure is in flight: the camera is never given a      *)
(* second start_exposure command before the exposure started by the        *)
(* previous one has been handed to finalize_exposure.                      *)
C1_AtMostOneExposureInFlight ==
    /\ in_flight <= 1
    /\ (last.op = "loop" /\ Called("start_exposure") => ~last.pre.currently_exposing)

C1_Witness ==
    /\ last.op = "loop"
    /\ last.branch = "begin"
    /\ Called("start_exposure")
    /\ in_flight = 1
    /\ self.last_image_filename # None

(* C2: a cancel request observed by a tick while no exposure is in flight  *)
(* (and no start is pending) is a no-op: no readout, no frame write, the   *)
(* controller stays Idle and the last frame name is unchanged.             *)
C2_CancelWhileIdleIsNoOp ==
    (/\ last.op = "loop"
     /\ last.pre.should_cancel
     /\ ~last.pre.currently_exposing
     /\ ~last.pre.should_begin_exposure)
    => /\ ~Called("readout")
       /\ last.writes = 0
       /\ ~last.fin_invoked
       /\ ~self.currently_exposing
       /\ self.last_image_filename = last.pre.last_image_filename

(* C3: a start request seen by a tick while an exposure is in flight is    *)
(* consumed by that tick: the start-requested flag is clear after it (so   *)
(* no exposure can begin later on account of that request).                *)
C3_StartWhileExposingConsumed ==
    (/\ last.op = "loop"
     /\ last.pre.currently_exposing
     /\ last.pre.should_begin_exposure)
    => ~self.should_begin_exposure

(* C4: with no cancel pending, a tick at a time now >= t0 + D finalizes    *)
(* the exposure in flight (now = t0 + D included), with actual duration D  *)
(* and not canceled.  Stated for an exposure whose start snapshot was      *)
(* taken and whose planned duration D is positive and is the exposure time *)
(* the camera holds.                                                       *)
C4_NaturalCompletionAtDeadline ==
    (/\ last.op = "loop"
     /\ last.pre.currently_exposing
     /\ ~last.pre.should_cancel
     /\ self.exposure_start_telem # None
     /\ last.pre.exposure_time_sec > 0
     /\ last.pre.exposure_time_sec = camera.exposure_time
     /\ last.now >= Deadline)
    => /\ last.branch = "complete"
       /\ ~self.currently_exposing
       /\ last.fin_invoked
       /\ last.fin_arg = None
       /\ (last.header # None =>
             /\ last.header[1].DATE_END = Deadline
             /\ ~last.header[1].CANCELD)

(* C5: a tick at t1 < t0 + D that observes a cancel request for the        *)
(* exposure in flight finalizes it in that tick with actual duration       *)
(* t1 - t0 and the canceled flag set; an exposure finalized by natural     *)
(* completion is not marked canceled.                                      *)
C5_CancelRecordsElapsed ==
    /\ (/\ last.op = "loop"
        /\ last.pre.currently_exposing
        /\ last.pre.should_cancel
        /\ last.now < Deadline)
       => /\ ~self.currently_exposing
          /\ last.fin_invoked
          /\ last.fin_arg = Some(last.now - last.pre.exposure_start_ts)
          /\ (last.header # None =>
                /\ last.header[1].CANCELD
                /\ last.header[1].DATE_OBS = last.pre.exposure_start_ts
                /\ last.header[1].DATE_END = last.now)
    /\ (last.op = "loop" /\ last.branch = "complete")
       => /\ last.fin_arg = None
          /\ (last.header # None => ~last.header[1].CANCELD)

C5_Witness ==
    /\ last.op = "loop"
    /\ last.pre.currently_exposing
    /\ last.pre.should_cancel
    /\ last.now > last.pre.exposure_start_ts
    /\ last.now < Deadline
    /\ last.header # None
    /\ last.writes = 1

(* C6: cancellation has strict priority within a tick: with a cancel       *)
(* request pending together with a pending start request and/or an         *)
(* exposure in flight whose planned duration has elapsed, the tick takes   *)
(* the cancellation transition only (finalization with the elapsed time,   *)
(* marked canceled); no start command is issued, the start request is      *)
(* left as it was, and the natural-completion transition is not taken.     *)
C6_CancelHasPriority ==
    (/\ last.op = "loop"
     /\ last.pre.should_cancel
     /\ \/ last.pre.should_begin_exposure
        \/ last.pre.currently_exposing /\ last.now >= Deadline)
    => /\ last.branch = "cancel"
       /\ ~self.should_cancel
       /\ ~Called("start_exposure")
       /\ self.should_begin_exposure = last.pre.should_begin_exposure
       /\ self.exposure_start_ts = last.pre.exposure_start_ts
       /\ last.fin_arg = Some(last.now - last.pre.exposure_start_ts)
       /\ (last.header # None => last.header[1].CANCELD)

C6_Witness ==
    /\ last.op = "loop"
    /\ last.pre.should_cancel
    /\ last.pre.should_begin_exposure
    /\ last.pre.currently_exposing
    /\ last.now > Deadline
    /\ last.branch = "cancel"
    /\ last.header # None

(* C7: when an exposure in flight is canceled, the camera's                *)
(* cancel_exposure is called, and before the readout of that exposure.     *)
C7_CameraCancelBeforeReadout ==
    (/\ last.op = "loop"
     /\ last.branch = "cancel"
     /\ last.pre.currently_exposing)
    => /\ Called("cancel_exposure")
       /\ (Called("readout") => CalledBefore("cancel_exposure", "readout"))

(* C8: when the start of an exposure fails (the start snapshot or the      *)
(* camera's start_exposure raises), the controller is Idle after that      *)
(* tick and the start request is cleared.                                  *)
C8_FailedStartLeavesIdle ==
    (last.op = "loop" /\ last.start_failed)
    => /\ ~self.currently_exposing
       /\ ~self.should_begin_exposure

(* C9: the tick that finalizes an exposure (natural completion, or         *)
(* cancellation of an exposure in flight) makes exactly one frame write    *)
(* attempt and leaves the controller Idle.  Stated for an exposure whose   *)
(* start snapshot was taken.                                               *)
C9_OneWritePerFinalization ==
    (/\ last.op = "loop"
     /\ self.exposure_start_telem # None
     /\ \/ last.branch = "complete"
        \/ last.branch = "cancel" /\ last.pre.currently_exposing)
    => /\ last.writes = 1
       /\ ~self.currently_exposing

(* C10: no failure of a collaborator escapes a tick: every tick runs its   *)
(* property refresh and its temperature regulation to the end.             *)
C10_NoFailureEscapesTick ==
    last.op = "loop"
    => /\ ~last.escaped
       /\ last.refreshed
       /\ last.regulated

(* C11: an exposure-time write received while an exposure is in flight     *)
(* leaves exposure_time_sec and the exptime property as they were, and the *)
(* property sent back to the bus carries the prior current value.          *)
C11_ExptimeWriteWhileExposingIgnored ==
    [][(last'.op = "handle_exptime" /\ self.currently_exposing)
       => /\ self'.exposure_time_sec = self.exposure_time_sec
          /\ properties'.exptime = properties.exptime
          /\ bus'.exptime = properties.exptime]_vars

C11_Witness ==
    /\ last.op = "handle_exptime"
    /\ self.currently_exposing
    /\ bus.exptime.current = Some(self.exposure_time_sec)
    /\ in_flight = 1

(* C12: exposure_time_sec, the value loop() compares with the clock to     *)
(* decide natural completion, is not changed while an exposure is in       *)
(* flight; here by the refresh from the camera, which a tick runs after    *)
(* its transition: when the exposure is in flight once the transition is   *)
(* done (just begun, or begun earlier and not yet due) and the refresh     *)
(* has run to its end, exposure_time_sec is what it was before the tick.   *)
C12_ExptimeFixedWhileExposing ==
    (/\ last.op = "loop"
     /\ last.refreshed
     /\ \/ last.branch = "begin"
        \/ last.branch = "none" /\ last.pre.currently_exposing
     /\ self.currently_exposing)
    => self.exposure_time_sec = last.pre.exposure_time_sec

(* C13: the exposure time set by an accepted write stays the setting and   *)
(* the published current value over the ticks that follow: a tick entered  *)
(* with the published current value equal to exposure_time_sec (as the     *)
(* accepted write leaves them) changes neither.                            *)
C13_AcceptedExptimeSurvivesTicks ==
    [][(last'.op = "loop" /\ bus.exptime.current = Some(self.exposure_time_sec))
       => /\ self'.exposure_time_sec = self.exposure_time_sec
          /\ bus'.exptime.current = bus.exptime.current]_vars

(* C14: the setpoint commanded to the camera follows the target the user   *)
(* wrote: a tick that runs to its end leaves camera.target_temperature     *)
(* equal to temp_target_deg_c as it stood when the tick began (the value   *)
(* handle_temp_ccd stored, when a write came before the tick).             *)
C14_SetpointFollowsTarget ==
    [][(last'.op = "loop" /\ ~last'.escaped)
       => camera'.target_temperature = self.temp_target_deg_c]_vars

(* C15: a temperature-target write with value T is always accepted: after  *)
(* handle_temp_ccd, temp_target_deg_c is T, whatever the state and also    *)
(* when T equals the published current temperature.                        *)
C15_TempWriteAlwaysAccepted ==
    (last.op = "handle_temp_ccd" /\ last.arg # None)
    => self.temp_target_deg_c = last.arg[1]

(* C16: the expose switch is momentary: in every reachable state the       *)
(* request and cancel elements, as held and as last sent to the bus, are   *)
(* Off, and after handle_expose the flag of each element written On is     *)
(* set.                                                                    *)
C16_ExposeSwitchMomentary ==
    /\ bus.expose = [request |-> "Off", cancel |-> "Off"]
    /\ properties.expose = [request |-> "Off", cancel |-> "Off"]
    /\ last.op = "handle_expose"
       => /\ (last.arg[1] = "On" => self.should_begin_exposure)
          /\ (last.arg[2] = "On" => self.should_cancel)

C16_Witness ==
    /\ last.op = "handle_expose"
    /\ last.arg = <<"On", "Off">>
    /\ self.should_begin_exposure
    /\ ~self.should_cancel
    /\ self.currently_exposing
    /\ bus.expose = [request |-> "Off", cancel |-> "Off"]

(* C17: a telemetry snapshot never fails because a recorded property or a  *)
(* filter wheel is missing: a start snapshot is taken whenever the         *)
(* camera's own readings return, it has the same keys in every call, and   *)
(* the keyword of a missing source holds None.                             *)
MetaKeys ==
    {"CCDTEMP", "CCDSETP", "GAIN", "EXPTIME"}
    \cup {NewKw(p) : p \in DOMAIN EXTERNAL_RECORDED_PROPERTIES}
    \cup {PresetName(fw) : fw \in RECORDED_WHEELS}

C17_SnapshotSurvivesMissingSource ==
    /\ self.exposure_start_telem # None
       => DOMAIN self.exposure_start_telem[1] = MetaKeys
    /\ (last.op = "loop" /\ last.branch = "begin" /\ ~last.temp_read_raised)
       => /\ self.exposure_start_telem # None
          /\ \A p \in DOMAIN EXTERNAL_RECORDED_PROPERTIES :
                self.exposure_start_telem[1][NewKw(p)] = client[p]
          /\ \A fw \in RECORDED_WHEELS :
                client[FilterName(fw)] = None
                => self.exposure_start_telem[1][PresetName(fw)] = None

C17_Witness ==
    /\ last.op = "loop"
    /\ last.branch = "begin"
    /\ self.exposure_start_telem # None
    /\ client["tcsi.teldata.pa"] # None
    /\ self.exposure_start_telem[1]["PARANG"] # None
    /\ self.exposure_start_telem[1]["OBJECT"] = None
    /\ self.exposure_start_telem[1]["FWFPM PRESET NAME"] = None

(* C18: an exposure record (here the start snapshot kept in               *)
(* exposure_start_telem) exists only while the controller is not Idle:     *)
(* none before the first exposure, and none once the exposure has been     *)
(* finalized, so that an Idle controller holds no stale start snapshot.    *)
C18_NoRecordWhileIdle ==
    ~self.currently_exposing => self.exposure_start_telem = None

(* C19: within a tick that runs to its end, the temperature regulator      *)
(* commands the setpoint before the exposure controller takes its          *)
(* transition, and the property state is published only after both.        *)
C19_TickOrder ==
    (last.op = "loop" /\ ~last.escaped)
    => /\ StepBefore("maintain_temperature_control", "transition")
       /\ StepBefore("transition", "refresh_properties")
       /\ StepBefore("maintain_temperature_control", "refresh_properties")

(* C20: every exposure that begins returns the controller to Idle when     *)
(* ticks keep occurring and the clock advances.  A tick that enters        *)
(* finalize_exposure leaves the controller Idle also when the readout or   *)
(* the write fails; with no cancel pending an exposure ends only by        *)
(* natural completion; and an exposure in flight whose deadline the clock  *)
(* of the model can pass is eventually over.                               *)
C20_FinalizationLeavesIdle ==
    /\ (last.op = "loop" /\ last.fin_invoked) => ~self.currently_exposing
    /\ (/\ last.op = "loop"
        /\ last.pre.currently_exposing
        /\ ~last.pre.should_cancel
        /\ ~self.currently_exposing) => last.branch = "complete"

C20_CanComplete ==
    /\ self.currently_exposing
    /\ self.exposure_start_ts + Max(self.exposure_time_sec, camera.exposure_time) < MaxTime

C20_ExposureEventuallyIdle ==
    /\ []C20_FinalizationLeavesIdle
    /\ C20_CanComplete ~> ~self.currently_exposing

C20_Witness ==
    /\ last.op = "loop"
    /\ last.branch = "complete"
    /\ last.pre.currently_exposing
    /\ last.calls = <<"readout">>
    /\ last.writes = 0
    /\ last.escaped
    /\ self.exposure_start_telem # None
    /\ ~self.currently_exposing

(* C21: the last_frame property published on the bus names the most       *)
(* recent frame: after a tick that finalized an exposure with a write      *)
(* attempt and ran to its end, the published filename is the name of the   *)
(* file just written.                                                      *)
C21_LastFramePublished ==
    (last.op = "loop" /\ last.writes = 1 /\ ~last.escaped)
    => /\ self.last_image_filename # None
       /\ properties.last_frame.filename = self.last_image_filename
       /\ bus.last_frame.filename = self.last_image_filename

(* C22: the refresh of the remaining-time status never fails, for every    *)
(* exposure time handle_exptime accepts (0 included), and what it          *)
(* publishes is in range: after a tick whose transition returned,          *)
(* remaining_sec and remaining_pct are 0 when no exposure is in flight,    *)
(* and 0 <= remaining_sec <= the exposure time it was computed from and    *)
(* 0 <= remaining_pct <= 100 when one is.                                  *)
C22_RemainingStatusInRange ==
    (last.op = "loop" /\ Len(last.steps) >= 2)
    => /\ ~last.status_raised
       /\ bus.current_exposure = properties.current_exposure
       /\ ~self.currently_exposing
          => /\ bus.current_exposure.remaining_sec = 0
             /\ bus.current_exposure.remaining_pct = 0
       /\ self.currently_exposing
          => /\ bus.current_exposure.remaining_sec >= 0
             /\ bus.current_exposure.remaining_sec <= last.pre.exposure_time_sec
             /\ bus.current_exposure.remaining_pct >= 0
             /\ bus.current_exposure.remaining_pct <= 100

====
